---- MODULE Spec2Model ----
(***************************************************************************)
(* Model of PaperlessNgx.execute (nodes/PaperlessNgx/PaperlessNgx.node.ts). *)
(*                                                                         *)
(* One run of execute: the host hands over the input items, the run        *)
(* parameters (resource, operation, file) and the continue-on-fail flag;   *)
(* the item loop dispatches on (resource, operation), issues requests      *)
(* through the host helpers and accumulates output records in returnData.  *)
(* The remote server and the host helpers are the environment: every       *)
(* response, page content, cursor and failure is chosen nondeterministically.*)
(***************************************************************************)
EXTENDS Integers, Sequences, FiniteSets, TLC

VARIABLES
    resource,       \* getNodeParameter('resource', 0)
    operation,      \* getNodeParameter('operation', 0)
    file,           \* getNodeParameter('file', itemIndex, 'data')
    continueOnFail, \* this.continueOnFail()
    input,          \* the input items as the host handed them over (history)
    items,          \* const items = this.getInputData(): the host's array itself
    itemIndex,      \* loop counter
    pc,             \* position of execute
    responseData,   \* pages collected by the paginated request in flight
    returnData,     \* accumulated output records
    recordItem,     \* history: for each record of returnData, the itemIndex that pushed it
    requests,       \* history: every HTTP request issued, with its response
    streams,        \* history: itemIndex of every getBinaryStream call
    thrown,         \* history: every error that reached the catch block
    outcome         \* what execute returned or raised

vars == <<resource, operation, file, continueOnFail, input, items, itemIndex, pc,
          responseData, returnData, recordItem, requests, streams, thrown, outcome>>

----------------------------------------------------------------------------
(* Bounds *)

MaxItems == 2
MaxPages == 2

----------------------------------------------------------------------------
(* Program constants *)

Resource == [Correspondent |-> "correspondent",
             DocumentType  |-> "documentType",
             Document      |-> "document"]

Operation == [Create |-> "create", Read |-> "read",
              Update |-> "update", Delete |-> "delete"]

Resources == {Resource.Correspondent, Resource.DocumentType, Resource.Document}
Operations == {Operation.Create, Operation.Read, Operation.Update, Operation.Delete}

DocumentsUri == "{domain}/api/documents/"
PostDocumentUri == "{domain}/api/documents/post_document/"

Null == "null"
NoId == "undefined"
NoIndex == <<>>
Pending == "pending"
Failed == "failed"
None == "n/a"

----------------------------------------------------------------------------
(* Environment: the values the host and the server can supply *)

FieldNames == {"data", "attachment"}

NoBinary == [f \in {} |-> None]

StoredPdf == [id |-> "filesystem:1", data |-> "", fileName |-> "a.pdf",
              mimeType |-> "application/pdf"]
InlinePng == [id |-> NoId, data |-> "iVBORw0K", fileName |-> "b.png",
              mimeType |-> "image/png"]

\* sample input items: each carries one attachment, under a different field name,
\* so for either value of file one has the named attachment and the other lacks it
ItemPool == { [json |-> "p1", binary |-> [data |-> StoredPdf]],
              [json |-> "p2", binary |-> [attachment |-> InlinePng]] }

\* the cursor the server sends with page k when another page follows
PageUrls == <<"{domain}/api/documents/?page=2", "{domain}/api/documents/?page=3",
              "{domain}/api/documents/?page=4", "{domain}/api/documents/?page=5">>
NextUrl(k) == PageUrls[k]

\* the page sizes the server answers with: an empty page or a page of two
PageSizes == {0, 2}

TaskIds == {"task-a", "task-b"}

NodeApiError == [name |-> "NodeApiError", context |-> TRUE]
PlainError == [name |-> "Error", context |-> FALSE]
MissingBinaryError == [name |-> "NodeOperationError", context |-> TRUE]
TransportErrors == {NodeApiError, PlainError}

SeqsUpTo(S, n) == UNION {[1..k -> S] : k \in 0..n}

\* results of one page: the server labels each document with the number of the
\* request that returned it and its position in the page
PageResults(reqNo, len) == [k \in 1..len |-> <<reqNo, k>>]

----------------------------------------------------------------------------
(* Pure parts of execute *)

\* if (resource === Resource.Document) { if (operation === Operation.Read) {
IsRead == resource = Resource.Document /\ operation = Operation.Read

\* mutant: the Create branch taken as the else of the Read test
IsCreateElse == resource = Resource.Document /\ operation # Operation.Read

\* if (resource === Resource.Document) { ... if (operation === Operation.Create) {
IsCreate == resource = Resource.Document /\ operation = Operation.Create

\* paginationOptions.continue: '={{ $response.body["next"] !== null }}'
ContinueExpr(body) == body.next # Null

\* paginationOptions.request.url: '={{ $response.body["next"] }}'
NextRequestUrl(body) == body.next

\* the GET request of Document/Read; the paginated helper re-issues it with
\* the url replaced by NextRequestUrl
ReadRequest(i, uri) ==
    [item |-> i, method |-> "GET", uri |-> uri,
     headers |-> [Accept |-> "application/json"],
     formData |-> None, status |-> Pending, response |-> None]

\* response.body.results.map((result) => ({ json: result }))
MapResults(results) == [k \in 1..Len(results) |-> [json |-> results[k]]]

\* mutant: only the first response is mapped
FirstPageOnly(responses) ==
    IF responses = <<>> THEN <<>> ELSE MapResults(Head(responses).body.results)

\* responseData.flatMap((response) => response.body.results.map(...))
RECURSIVE FlatMapResults(_)
FlatMapResults(responses) ==
    IF responses = <<>> THEN <<>>
    ELSE MapResults(Head(responses).body.results) \o FlatMapResults(Tail(responses))

\* mutant: returnData.unshift(...elems)
Unshift(arr, elems) == elems \o arr

\* returnData.push(...elems)
Push(arr, elems) == arr \o elems

\* items[itemIndex].binary, undefined on an item that carries none
BinaryOf(item) == IF "binary" \in DOMAIN item THEN item.binary ELSE NoBinary

\* this.helpers.assertBinaryData(itemIndex, documentFieldName) throws
AssertBinaryDataFails(item, fieldName) == fieldName \notin DOMAIN BinaryOf(item)

\* if (documentBinaryData.id) getBinaryStream(id) else Buffer.from(data, BINARY_ENCODING)
UsesStream(documentBinaryData) == documentBinaryData.id # NoId

DocumentUploadData(documentBinaryData) ==
    IF UsesStream(documentBinaryData)
    THEN [kind |-> "stream", of |-> documentBinaryData.id]
    ELSE [kind |-> "buffer", of |-> documentBinaryData.data]

\* mutant: filename and contentType taken from the wrong fields
UploadRequestSwapped(i, documentData, documentUploadData) ==
    [item |-> i, method |-> "POST", uri |-> PostDocumentUri,
     headers |-> None,
     formData |-> [document |-> [value |-> documentUploadData,
                                 options |-> [filename |-> documentData.mimeType,
                                              contentType |-> documentData.fileName]]],
     status |-> Pending, response |-> None]

\* the multipart POST of Document/Create
UploadRequest(i, documentData, documentUploadData) ==
    [item |-> i, method |-> "POST", uri |-> PostDocumentUri,
     headers |-> None,
     formData |-> [document |-> [value |-> documentUploadData,
                                 options |-> [filename |-> documentData.fileName,
                                              contentType |-> documentData.mimeType]]],
     status |-> Pending, response |-> None]

\* the node declares one input, 'main'; this.getInputData(inputIndex) gives the
\* items of that input, and no items for an input index that does not exist
InputData == <<items>>
GetInputData(inputIndex) ==
    IF inputIndex < Len(InputData) THEN InputData[inputIndex + 1] ELSE <<>>

\* mutant: an error without context is rethrown as it is
AbortErrorRethrow(error, i) ==
    IF error.context
    THEN [data |-> <<>>, error |-> error, itemIndex |-> <<i>>]
    ELSE [data |-> <<>>, error |-> error, itemIndex |-> NoIndex]

\* abort branch: error.context.itemIndex = itemIndex; throw error, or
\* throw new NodeOperationError(this.getNode(), error, { itemIndex })
AbortError(error, i) ==
    IF error.context
    THEN [data |-> <<>>, error |-> error, itemIndex |-> <<i>>]
    ELSE [data |-> <<>>,
          error |-> [name |-> "NodeOperationError", context |-> TRUE],
          itemIndex |-> <<i>>]

\* reading [0].json of an input that has no items throws out of the catch block
CatchFailure == [data |-> <<>>, error |-> [name |-> "TypeError", context |-> FALSE],
                 itemIndex |-> NoIndex]

Answered(reqs, status, response) ==
    [reqs EXCEPT ![Len(reqs)].status = status, ![Len(reqs)].response = response]

----------------------------------------------------------------------------
(* The catch block of the item loop *)

Catch(error) ==
    /\ thrown' = Append(thrown, [itemIndex |-> itemIndex, error |-> error])
    /\ IF continueOnFail
       THEN IF GetInputData(itemIndex) # <<>>
            THEN /\ items' = Append(items,
                        [json |-> GetInputData(itemIndex)[1].json,
                         error |-> error, pairedItem |-> itemIndex])
                 /\ itemIndex' = itemIndex + 1
                 /\ pc' = "loop"
                 /\ UNCHANGED outcome
            ELSE /\ pc' = "raised"
                 /\ outcome' = CatchFailure
                 /\ UNCHANGED <<items, itemIndex>>
       ELSE /\ pc' = "raised"
            /\ outcome' = AbortError(error, itemIndex)
            /\ UNCHANGED <<items, itemIndex>>

----------------------------------------------------------------------------
(* Initial state and steps *)

params == <<resource, operation, file, continueOnFail, input>>

Init ==
    /\ resource \in Resources
    /\ operation \in Operations
    /\ file \in FieldNames
    /\ continueOnFail \in BOOLEAN
    /\ input \in SeqsUpTo(ItemPool, MaxItems)
    /\ items = input
    /\ itemIndex = 0
    /\ pc = "loop"
    /\ responseData = <<>>
    /\ returnData = <<>>
    /\ recordItem = <<>>
    /\ requests = <<>>
    /\ streams = <<>>
    /\ thrown = <<>>
    /\ outcome = [data |-> <<>>, error |-> None, itemIndex |-> NoIndex]

InLoop == pc = "loop" /\ itemIndex < Len(items)

\* an iteration of a run whose (resource, operation) has no branch
Skip ==
    /\ InLoop
    /\ ~IsRead
    /\ ~IsCreate
    /\ itemIndex' = itemIndex + 1
    /\ UNCHANGED <<params, items, pc, responseData, returnData, recordItem,
                   requests, streams, thrown, outcome>>

\* Document/Read: the first request of requestWithAuthenticationPaginated
StartRead ==
    /\ InLoop
    /\ IsRead
    /\ requests' = Append(requests, ReadRequest(itemIndex, DocumentsUri))
    /\ responseData' = <<>>
    /\ pc' = "paginating"
    /\ UNCHANGED <<params, items, itemIndex, returnData, recordItem, streams,
                   thrown, outcome>>

\* a page arrives: either the helper requests the next one, or the await
\* resumes and the results are pushed
ReadResponse ==
    /\ pc = "paginating"
    /\ \E len \in PageSizes,
          next \in (IF Len(responseData) + 1 < MaxPages
                    THEN {NextUrl(Len(responseData) + 1)} ELSE {}) \cup {Null} :
          LET body == [results |-> PageResults(Len(requests), len), next |-> next]
              all == Append(responseData, [body |-> body])
              recs == FlatMapResults(all)
          IN  IF ContinueExpr(body)
              THEN /\ requests' = Append(Answered(requests, "ok", body),
                                         ReadRequest(itemIndex, NextRequestUrl(body)))
                   /\ responseData' = all
                   /\ UNCHANGED <<itemIndex, pc, returnData, recordItem>>
              ELSE /\ requests' = Answered(requests, "ok", body)
                   /\ responseData' = <<>>
                   /\ returnData' = Push(returnData, recs)
                   /\ recordItem' = Push(recordItem, [k \in 1..Len(recs) |-> itemIndex])
                   /\ itemIndex' = itemIndex + 1
                   /\ pc' = "loop"
    /\ UNCHANGED <<params, items, streams, thrown, outcome>>

\* a page request fails: the paginated helper rejects
ReadFailure ==
    /\ pc = "paginating"
    /\ \E e \in TransportErrors :
          /\ requests' = Answered(requests, Failed, None)
          /\ Catch(e)
    /\ responseData' = <<>>
    /\ UNCHANGED <<params, returnData, recordItem, streams>>

\* mutant: the attachment is asserted only after the request has been sent
CreateMissingBinaryAfterRequest ==
    /\ pc = "loop" /\ itemIndex < Len(items)
    /\ IsCreate
    /\ AssertBinaryDataFails(items[itemIndex + 1], file)
    /\ requests' = Append(requests,
           [item |-> itemIndex, method |-> "POST", uri |-> PostDocumentUri,
            headers |-> None, formData |-> None, status |-> "ok", response |-> None])
    /\ Catch(MissingBinaryError)
    /\ UNCHANGED <<params, responseData, returnData, recordItem, streams>>

\* Document/Create on an item without the named attachment
CreateMissingBinary ==
    /\ InLoop
    /\ IsCreate
    /\ AssertBinaryDataFails(items[itemIndex + 1], file)
    /\ Catch(MissingBinaryError)
    /\ UNCHANGED <<params, responseData, returnData, recordItem, requests, streams>>

\* Document/Create: getBinaryStream rejects
CreateStreamFailure ==
    /\ InLoop
    /\ IsCreate
    /\ ~AssertBinaryDataFails(items[itemIndex + 1], file)
    /\ UsesStream(BinaryOf(items[itemIndex + 1])[file])
    /\ streams' = Append(streams, itemIndex)
    /\ Catch(PlainError)
    /\ UNCHANGED <<params, responseData, returnData, recordItem, requests>>

\* Document/Create: the upload request is issued
CreateUpload ==
    /\ InLoop
    /\ IsCreate
    /\ ~AssertBinaryDataFails(items[itemIndex + 1], file)
    /\ LET documentData == BinaryOf(items[itemIndex + 1])[file]
           documentBinaryData == BinaryOf(items[itemIndex + 1])[file]
       IN  /\ streams' = IF UsesStream(documentBinaryData)
                         THEN Append(streams, itemIndex) ELSE streams
           /\ requests' = Append(requests,
                  UploadRequest(itemIndex, documentData,
                                DocumentUploadData(documentBinaryData)))
    /\ pc' = "uploading"
    /\ UNCHANGED <<params, items, itemIndex, responseData, returnData, recordItem,
                   thrown, outcome>>

\* the upload is accepted: returnData.push({ json: { task_id: responseData } })
UploadResponse ==
    /\ pc = "uploading"
    /\ \E t \in TaskIds :
          /\ requests' = Answered(requests, "ok", t)
          /\ returnData' = Push(returnData, <<[json |-> [task_id |-> t]]>>)
          /\ recordItem' = Push(recordItem, <<itemIndex>>)
    /\ itemIndex' = itemIndex + 1
    /\ pc' = "loop"
    /\ UNCHANGED <<params, items, responseData, streams, thrown, outcome>>

\* the upload fails
UploadFailure ==
    /\ pc = "uploading"
    /\ \E e \in TransportErrors :
          /\ requests' = Answered(requests, Failed, None)
          /\ Catch(e)
    /\ UNCHANGED <<params, responseData, returnData, recordItem, streams>>

\* return this.prepareOutputData(returnData)
Return ==
    /\ pc = "loop"
    /\ itemIndex >= Len(items)
    /\ pc' = "returned"
    /\ outcome' = [data |-> <<returnData>>, error |-> None, itemIndex |-> NoIndex]
    /\ UNCHANGED <<params, items, itemIndex, responseData, returnData, recordItem,
                   requests, streams, thrown>>

Next ==
    \/ Skip
    \/ StartRead
    \/ ReadResponse
    \/ ReadFailure
    \/ CreateMissingBinary
    \/ CreateStreamFailure
    \/ CreateUpload
    \/ UploadResponse
    \/ UploadFailure
    \/ Return

Spec == Init /\ [][Next]_vars

----------------------------------------------------------------------------
(* Vocabulary of the properties *)

Indices == 0..(Len(items) - 1)

ThrownAt == {thrown[k].itemIndex : k \in 1..Len(thrown)}

\* item i has been processed to its end without throwing
Completed(i) == i < itemIndex /\ i \notin ThrownAt

\* item i has been processed to its end, one way or the other
Processed(i) == i < itemIndex \/ (i = itemIndex /\ pc = "raised")

ReqsOf(i) == SelectSeq(requests, LAMBDA r : r.item = i)

\* the records of returnData that item i pushed, in their order in returnData
RECURSIVE RecordsFrom(_, _)
RecordsFrom(k, i) ==
    IF k > Len(returnData) THEN <<>>
    ELSE (IF recordItem[k] = i THEN <<returnData[k]>> ELSE <<>>) \o RecordsFrom(k + 1, i)
RecordsOf(i) == RecordsFrom(1, i)

\* number of results on the pages before page k of a request sequence
RECURSIVE ResultsBefore(_, _)
ResultsBefore(rq, k) ==
    IF k <= 1 THEN 0
    ELSE ResultsBefore(rq, k - 1) + Len(rq[k - 1].response.results)

IsErrorRecord(rec) == "error" \in DOMAIN rec

IsPrefix(s, t) == Len(s) <= Len(t) /\ \A k \in 1..Len(s) : s[k] = t[k]

Unimplemented ==
    \/ resource \in {Resource.Correspondent, Resource.DocumentType}
    \/ operation \in {Operation.Update, Operation.Delete}

----------------------------------------------------------------------------
(* Properties *)

\* C1: Document/Read pagination. For every item whose pages all arrive, the
\* requests of the item are N >= 1 GETs, the first to /api/documents/ and each
\* later one to the `next` of the page before it, every page but the last has
\* a non-null `next` and the last has `next` = null, and the records the item
\* pushed are the results of page 1, then page 2, ..., each in in-page order,
\* one {json: result} per result.
C1_Pagination ==
    IsRead =>
      \A i \in Indices :
        Completed(i) =>
          LET rq == ReqsOf(i)
              N == Len(rq)
              recs == RecordsOf(i)
          IN  /\ N >= 1
              /\ \A k \in 1..N : rq[k].method = "GET" /\ rq[k].status = "ok"
              /\ rq[1].uri = DocumentsUri
              /\ \A k \in 1..(N - 1) :
                    /\ rq[k].response.next # Null
                    /\ rq[k + 1].uri = rq[k].response.next
              /\ rq[N].response.next = Null
              /\ Len(recs) = ResultsBefore(rq, N + 1)
              /\ \A k \in 1..N : \A j \in 1..Len(rq[k].response.results) :
                    recs[ResultsBefore(rq, k) + j] = [json |-> rq[k].response.results[j]]

\* a Read item completed over two non-empty pages
C1_Witness ==
    /\ IsRead
    /\ \E i \in Indices :
          /\ Completed(i)
          /\ Len(ReqsOf(i)) = 2
          /\ Len(RecordsOf(i)) = 4

\* C2: Document/Create success. For every item whose upload succeeded, exactly
\* one request was issued for it, a multipart POST to
\* /api/documents/post_document/ whose only part, `document`, carries the
\* fileName and mimeType of the item's attachment under the configured field
\* name, and the item pushed exactly one record, whose task_id is the response.
C2_CreateSuccess ==
    IsCreate =>
      \A i \in Indices :
        Completed(i) =>
          LET rq == ReqsOf(i)
              attachment == BinaryOf(items[i + 1])[file]
          IN  /\ Len(rq) = 1
              /\ rq[1].method = "POST"
              /\ rq[1].uri = PostDocumentUri
              /\ rq[1].status = "ok"
              /\ DOMAIN rq[1].formData = {"document"}
              /\ rq[1].formData.document.options.filename = attachment.fileName
              /\ rq[1].formData.document.options.contentType = attachment.mimeType
              /\ RecordsOf(i) = <<[json |-> [task_id |-> rq[1].response]]>>

\* an upload succeeded for an item that carries the named attachment
C2_Witness ==
    /\ IsCreate
    /\ \E i \in Indices :
          /\ Completed(i)
          /\ file \in DOMAIN BinaryOf(items[i + 1])
          /\ Len(RecordsOf(i)) = 1

\* C3: Missing-binary error. In a Create run, an item without an attachment
\* under the configured field name never has a request or a binary-stream
\* open issued for it, and once processed it has failed with the
\* missing-binary error; this holds whatever the continue-on-fail flag is.
C3_MissingBinary ==
    IsCreate =>
      \A i \in Indices :
        AssertBinaryDataFails(items[i + 1], file) =>
          /\ ReqsOf(i) = <<>>
          /\ \A k \in 1..Len(streams) : streams[k] # i
          /\ Processed(i) =>
                \E k \in 1..Len(thrown) :
                    thrown[k] = [itemIndex |-> i, error |-> MissingBinaryError]

\* an item without the attachment failed after an earlier item was uploaded
C3_Witness ==
    /\ IsCreate
    /\ Len(requests) > 0
    /\ \E k \in 1..Len(thrown) :
          /\ thrown[k].error = MissingBinaryError
          /\ thrown[k].itemIndex > 0

\* C4: Continue mode. With continue-on-fail set, a failing item never stops
\* the run (execute does not raise), and the returned records hold exactly one
\* error record per failing input item, tagged with that item's index.
C4_ContinueMode ==
    continueOnFail =>
      /\ pc # "raised"
      /\ pc = "returned" =>
            \A i \in 0..(Len(input) - 1) :
              i \in ThrownAt =>
                Cardinality({k \in 1..Len(outcome.data[1]) :
                                /\ IsErrorRecord(outcome.data[1][k])
                                /\ outcome.data[1][k].pairedItem = i}) = 1

\* C5: Continue-mode termination. With continue-on-fail set, execute never
\* raises, and the item loop never runs more iterations than there were
\* input items: the loop counter stays within the input's length and no
\* request or failure belongs to an index beyond the input items.
C5_ContinueTermination ==
    continueOnFail =>
      /\ pc # "raised"
      /\ itemIndex <= Len(input)
      /\ \A i \in ThrownAt : i < Len(input)
      /\ \A r \in 1..Len(requests) : requests[r].item < Len(input)

\* C6: Abort mode. Without continue-on-fail, once an item has failed the run
\* has raised an error carrying that item's index, it is the only failure,
\* the loop stopped at that item, and no request and no output record belongs
\* to a later item.
C6_AbortMode ==
    ~continueOnFail =>
      \A k \in 1..Len(thrown) :
        LET i == thrown[k].itemIndex
        IN  /\ pc = "raised"
            /\ outcome.itemIndex = <<i>>
            /\ Len(thrown) = 1
            /\ itemIndex = i
            /\ \A r \in 1..Len(requests) : requests[r].item <= i
            /\ \A r \in 1..Len(recordItem) : recordItem[r] <= i

\* abort mode raised on an item that has a later item behind it
C6_Witness ==
    /\ ~continueOnFail
    /\ pc = "raised"
    /\ Len(thrown) = 1
    /\ itemIndex + 1 < Len(items)

\* C7: Continue-mode error record. When a run with continue-on-fail returns,
\* for every input item that failed the returned records contain an error
\* record tagged with the item's index whose payload is that item's payload.
C7_ErrorRecord ==
    (continueOnFail /\ pc = "returned") =>
      \A i \in 0..(Len(input) - 1) :
        i \in ThrownAt =>
          \E k \in 1..Len(outcome.data[1]) :
            /\ IsErrorRecord(outcome.data[1][k])
            /\ outcome.data[1][k].pairedItem = i
            /\ outcome.data[1][k].json = input[i + 1].json

\* C8: Unimplemented combinations. When the resource is Correspondent or
\* DocumentType, or the operation is Update or Delete, no request is issued,
\* no binary stream is opened, no record is pushed, nothing is thrown, the run
\* does not raise, it can always take its next step until it has returned,
\* and what it returns is the empty record list.
C8_Unimplemented ==
    Unimplemented =>
      /\ requests = <<>>
      /\ streams = <<>>
      /\ returnData = <<>>
      /\ thrown = <<>>
      /\ pc \in {"loop", "returned"}
      /\ pc = "loop" => ENABLED Next
      /\ pc = "returned" => outcome.data = << <<>> >>

\* an unimplemented run over two items has returned
C8_Witness ==
    /\ Unimplemented
    /\ pc = "returned"
    /\ Len(input) = 2
    /\ itemIndex = 2

\* C9: Sequential ordering. Requests are issued in item order, only the
\* latest request can be awaiting its response and it belongs to the item
\* being processed, and the output records are in item order: every record
\* of item i precedes every record of item j for i < j.
C9_Sequential ==
    /\ \A k, l \in 1..Len(requests) : k < l => requests[k].item <= requests[l].item
    /\ \A k \in 1..Len(requests) :
          requests[k].status = Pending =>
            /\ k = Len(requests)
            /\ requests[k].item = itemIndex
            /\ pc \in {"paginating", "uploading"}
    /\ \A k \in 1..Len(requests) : requests[k].item <= itemIndex
    /\ \A k, l \in 1..Len(recordItem) : k < l => recordItem[k] <= recordItem[l]
    /\ Len(recordItem) = Len(returnData)

\* two different items have both issued requests and pushed records
C9_Witness ==
    /\ \E k, l \in 1..Len(recordItem) : recordItem[k] < recordItem[l]
    /\ \E k, l \in 1..Len(requests) : requests[k].item < requests[l].item

\* C10: Shared state across items. Every step leaves the input item sequence
\* as it was, in length and contents, and only appends to the output-record
\* sequence.
C10_SharedState ==
    [][items' = items /\ IsPrefix(returnData, returnData')]_vars

====
